---------------------------- MODULE Spec2Model ----------------------------
(***************************************************************************)
(* Citation resolution and highlight extraction of the PageIndex RAG       *)
(* backend (src/examples/backend_pageindex.py) and of the vector-database  *)
(* backend (src/examples/backend_example.py).                              *)
(*                                                                         *)
(* Strings are sequences of one-character strings, so that offsets,        *)
(* substring search, literal replacement and the marker grammar are        *)
(* computed character by character as Python computes them.                *)
(***************************************************************************)
EXTENDS Integers, Sequences, FiniteSets, TLC

VARIABLES
    pc,             \* position of the running function / handler
    \* ---- parse_pageindex_citations + normalize_citations
    text,           \* the answer text given to the two functions
    citations,      \* list returned by parse_pageindex_citations
    ci,             \* number of citations the normalize loop has processed
    normalized,     \* normalize_citations: local `normalized`
    citation_map,   \* normalize_citations: local `citation_map`
    \* ---- find_node_by_page_in_map
    node_map,       \* the flat node map, its entries in dict order
    page_num,       \* the page looked up
    best_match,     \* the node returned, or None
    \* ---- extract_query_highlights / extract_highlights
    sectionText,    \* the section (chunk) text
    query,          \* the user's query
    max_highlights, \* the max_highlights argument
    scored,         \* the sentences a relevance score was computed for
    similarities,   \* extract_highlights: similarities, in tenths
    highlights,     \* the list returned
    \* ---- rag_query and rag_stream
    request,        \* QueryRequest: query, docId, enableCitations
    upstream,       \* the chunks pi_client.chat_completions yields
    tree_response,  \* what pi_client.get_tree does for the document
    response,       \* rag_query: the QueryResponse returned
    pos,            \* rag_stream: number of upstream chunks consumed
    full_answer,    \* rag_stream: full_answer
    events,         \* rag_stream: the events yielded so far
    fetched,        \* rag_stream: locals tree and node_map
    stream_citations, \* rag_stream: citations
    si,             \* rag_stream: citations the source loop has processed
    seen_keys,      \* rag_stream: seen_keys
    citation_num,   \* rag_stream: citation_num
    \* ---- two calls of rag_stream with the same inputs
    run,            \* which call of rag_stream is running: 1 or 2
    first_events,   \* the events the first call yielded
    \* ---- process_chat_with_tools
    message,        \* the user's message
    tool_ids,       \* tool_id_1, tool_id_2, tool_id_3 as far as generated
    response_text,  \* response_text
    chunk_start,    \* the loop variable i of the chunk loop
    sse             \* the events yielded so far

normVars == <<text, citations, ci, normalized, citation_map>>
indexVars == <<node_map, page_num, best_match>>
hlVars == <<sectionText, query, max_highlights, scored, similarities,
            highlights>>

envVars == <<request, upstream, tree_response>>
streamVars == <<pos, full_answer, events, fetched, stream_citations, si,
                seen_keys, citation_num>>
resolveVars == <<envVars, response, streamVars>>

repeatVars == <<run, first_events>>

chatVars == <<message, tool_ids, response_text, chunk_start, sse>>

vars == <<pc, normVars, indexVars, hlVars, resolveVars, repeatVars, chatVars>>

\* what each specification leaves alone
notNorm == <<indexVars, hlVars, resolveVars, repeatVars, chatVars>>
notIndex == <<normVars, hlVars, resolveVars, repeatVars, chatVars>>
notHl == <<normVars, indexVars, resolveVars, repeatVars, chatVars>>
notResolve == <<normVars, indexVars, hlVars, repeatVars, chatVars>>
notChat == <<normVars, indexVars, hlVars, resolveVars, repeatVars>>

\* Python's None where a node is expected
None == [none |-> TRUE]

-----------------------------------------------------------------------------
(* Bounds of the model *)

\* answer texts are concatenations of at most MaxChunks pieces of AnswerChunks
MaxChunks == 4
\* node maps of the lookup specification hold at most MaxEntries entries
MaxEntries == 3
\* their page ranges lie within 1..MaxPage
MaxPage == 3
\* section texts are concatenations of at most MaxPieces pieces of TextPieces
MaxPieces == 3
\* the upstream of a request yields at most MaxUpstream chunks
MaxUpstream == 3

-----------------------------------------------------------------------------
(* Python string primitives, on sequences of characters *)

Digit == {"0", "1", "2", "3", "4", "5", "6", "7", "8", "9"}

DigitVal(c) ==
    CASE c = "0" -> 0 [] c = "1" -> 1 [] c = "2" -> 2 [] c = "3" -> 3
      [] c = "4" -> 4 [] c = "5" -> 5 [] c = "6" -> 6 [] c = "7" -> 7
      [] c = "8" -> 8 [] c = "9" -> 9

DigitChar(d) == CHOOSE c \in Digit : DigitVal(c) = d

\* int(s) for a string of decimal digits
RECURSIVE ParseInt(_)
ParseInt(s) ==
    IF s = <<>> THEN 0
    ELSE 10 * ParseInt(SubSeq(s, 1, Len(s) - 1)) + DigitVal(s[Len(s)])

\* str(n) / f"{n}" for n >= 0
RECURSIVE IntToStr(_)
IntToStr(n) ==
    IF n < 10 THEN <<DigitChar(n)>>
    ELSE IntToStr(n \div 10) \o <<DigitChar(n % 10)>>

\* s[i:] starts with lit (i is a 1-based position)
StartsWithAt(s, i, lit) ==
    /\ i + Len(lit) - 1 <= Len(s)
    /\ SubSeq(s, i, i + Len(lit) - 1) = lit

\* s.find(sub, from): 0-based offset of the first occurrence at or after the
\* 1-based position i, or -1
RECURSIVE FindFrom(_, _, _)
FindFrom(s, sub, i) ==
    IF i + Len(sub) - 1 > Len(s) THEN -1
    ELSE IF StartsWithAt(s, i, sub) THEN i - 1
    ELSE FindFrom(s, sub, i + 1)

FindFromSecond(s, sub) == FindFrom(s, sub, 2)

\* s.find(sub)
Find(s, sub) == FindFrom(s, sub, 1)

\* s.replace(old, new): every non-overlapping occurrence, left to right
RECURSIVE ReplaceFrom(_, _, _, _)
ReplaceFrom(s, old, new, i) ==
    IF i > Len(s) THEN <<>>
    ELSE IF StartsWithAt(s, i, old)
         THEN new \o ReplaceFrom(s, old, new, i + Len(old))
         ELSE <<s[i]>> \o ReplaceFrom(s, old, new, i + 1)

Replace(s, old, new) == ReplaceFrom(s, old, new, 1)

RECURSIVE Flatten(_)
Flatten(ss) == IF ss = <<>> THEN <<>> ELSE Head(ss) \o Flatten(Tail(ss))

SeqsUpTo(S, n) == UNION {[1..k -> S] : k \in 0..n}

Range(f) == {f[x] : x \in DOMAIN f}

-----------------------------------------------------------------------------
(* The marker grammar  <doc=([^;]+);page=(\d+)>  *)

DocOpen == <<"<", "d", "o", "c", "=">>
PageSep == <<";", "p", "a", "g", "e", "=">>
MarkerClose == <<">">>

\* first position >= i holding a ';', or Len(s) + 1
RECURSIVE NextSemi(_, _)
NextSemi(s, i) ==
    IF i > Len(s) \/ s[i] = ";" THEN i ELSE NextSemi(s, i + 1)

\* first position >= i not holding a digit, or Len(s) + 1
RECURSIVE DigitsEnd(_, _)
DigitsEnd(s, i) ==
    IF i > Len(s) \/ s[i] \notin Digit THEN i ELSE DigitsEnd(s, i + 1)

\* The pattern matched at position i. [^;]+ cannot cross a ';' and must be
\* followed by one, \d+ must be followed by '>', so the match at i is unique.
MatchAt(s, i) ==
    LET d0 == i + Len(DocOpen)
        semi == NextSemi(s, d0)
        p0 == semi + Len(PageSep)
        pend == DigitsEnd(s, p0)
    IN  IF /\ StartsWithAt(s, i, DocOpen)
           /\ semi > d0
           /\ StartsWithAt(s, semi, PageSep)
           /\ pend > p0
           /\ StartsWithAt(s, pend, MarkerClose)
        THEN [ok |-> TRUE, start |-> i, end |-> pend,
              doc_name |-> SubSeq(s, d0, semi - 1),
              page_num |-> SubSeq(s, p0, pend - 1)]
        ELSE [ok |-> FALSE]

\* re.findall(pattern, text): the non-overlapping matches, leftmost first
RECURSIVE FindAllFrom(_, _)
FindAllFrom(s, i) ==
    IF i > Len(s) THEN <<>>
    ELSE LET m == MatchAt(s, i)
         IN  IF m.ok THEN <<m>> \o FindAllFrom(s, m.end + 1)
             ELSE FindAllFrom(s, i + 1)

FindAll(s) == FindAllFrom(s, 1)

\* some substring of s matches the marker grammar
HasMarker(s) == \E i \in 1..Len(s) : MatchAt(s, i).ok

RawOfInt(doc_name, page_digits) ==
    DocOpen \o doc_name \o PageSep \o IntToStr(ParseInt(page_digits)) \o MarkerClose

\* f"<doc={doc_name};page={page_num}>"
RawOf(doc_name, page_digits) ==
    DocOpen \o doc_name \o PageSep \o page_digits \o MarkerClose

MakeCitation(m) ==
    [documentName |-> m.doc_name,
     pageNumber |-> ParseInt(m.page_num),
     raw |-> RawOf(m.doc_name, m.page_num)]

parse_pageindex_citations(s) ==
    LET matches == FindAll(s)
    IN  [k \in 1..Len(matches) |-> MakeCitation(matches[k])]

\* f"{citation['documentName']}_p{citation['pageNumber']}"
CitationKey(c) == c.documentName \o <<"_", "p">> \o IntToStr(c.pageNumber)

\* f"[{num}]"
NumberTag(num) == <<"[">> \o IntToStr(num) \o <<"]">>


-----------------------------------------------------------------------------
(* normalize_citations, one loop iteration at a time *)

AssignNumberZeroBased(map, key) ==
    IF key \in DOMAIN map THEN map
    ELSE [k \in DOMAIN map \cup {key} |->
            IF k = key THEN Cardinality(DOMAIN map) ELSE map[k]]

\* if key not in citation_map: citation_map[key] = len(citation_map) + 1
AssignNumber(map, key) ==
    IF key \in DOMAIN map THEN map
    ELSE [k \in DOMAIN map \cup {key} |->
            IF k = key THEN Cardinality(DOMAIN map) + 1 ELSE map[k]]

\* normalized.replace(citation["raw"], f"[{num}]")
ReplaceMarker(s, raw, num) == Replace(s, raw, NumberTag(num))

\* the whole function, as the loop computes it
RECURSIVE NormalizeLoop(_, _, _, _)
NormalizeLoop(s, cits, map, k) ==
    IF k > Len(cits) THEN [normalized |-> s, citation_map |-> map]
    ELSE LET key == CitationKey(cits[k])
             m2 == AssignNumber(map, key)
         IN  NormalizeLoop(ReplaceMarker(s, cits[k].raw, m2[key]), cits, m2, k + 1)

normalize_citations(s, cits) == NormalizeLoop(s, cits, <<>>, 1)

-----------------------------------------------------------------------------
(* Inputs: answer texts built from pieces of markers *)

AnswerChunks ==
    { DocOpen \o <<"b">> \o PageSep \o <<"1">> \o MarkerClose,  \* <doc=b;page=1>
      DocOpen \o <<"b">>,                                       \* <doc=b
      PageSep \o <<"0", "1">> \o MarkerClose,                   \* ;page=01>
      PageSep \o <<"2">> \o MarkerClose,                        \* ;page=2>
      PageSep \o MarkerClose,                                   \* ;page=>
      PageSep \o <<"x">> \o MarkerClose,                         \* ;page=x>
      <<"x">> }

AnswerTexts == {Flatten(cs) : cs \in SeqsUpTo(AnswerChunks, MaxChunks)}

-----------------------------------------------------------------------------
(* Specification SpecNorm: parse, then normalize citation by citation *)

IdleNorm ==
    /\ text = <<>>
    /\ citations = <<>>
    /\ ci = 0
    /\ normalized = <<>>
    /\ citation_map = <<>>

IdleIndex ==
    /\ node_map = <<>>
    /\ page_num = 0
    /\ best_match = None

IdleHl ==
    /\ sectionText = <<>>
    /\ query = <<>>
    /\ max_highlights = 0
    /\ scored = <<>>
    /\ similarities = <<>>
    /\ highlights = <<>>

IdleRepeat ==
    /\ run = 1
    /\ first_events = <<>>

IdleChat ==
    /\ message = <<>>
    /\ tool_ids = <<>>
    /\ response_text = <<>>
    /\ chunk_start = 0
    /\ sse = <<>>

IdleResolve ==
    /\ request = <<>>
    /\ upstream = <<>>
    /\ tree_response = <<>>
    /\ response = <<>>
    /\ pos = 0
    /\ full_answer = <<>>
    /\ events = <<>>
    /\ fetched = <<>>
    /\ stream_citations = <<>>
    /\ si = 0
    /\ seen_keys = {}
    /\ citation_num = 0

InitNorm ==
    /\ IdleRepeat
    /\ IdleChat
    /\ IdleIndex
    /\ IdleHl
    /\ IdleResolve
    /\ pc = "parse"
    /\ text \in AnswerTexts
    /\ citations = <<>>
    /\ ci = 0
    /\ normalized = <<>>
    /\ citation_map = <<>>

\* citations = parse_pageindex_citations(raw_answer); normalize_citations
\* starts with normalized = text and an empty citation_map
ParseCitations ==
    /\ pc = "parse"
    /\ citations' = parse_pageindex_citations(text)
    /\ normalized' = text
    /\ citation_map' = <<>>
    /\ ci' = 0
    /\ pc' = "normalize"
    /\ UNCHANGED <<text, notNorm>>

\* one iteration of `for citation in citations`
NormalizeStep ==
    /\ pc = "normalize"
    /\ ci < Len(citations)
    /\ LET citation == citations[ci + 1]
           key == CitationKey(citation)
           map2 == AssignNumber(citation_map, key)
       IN  /\ citation_map' = map2
           /\ normalized' = ReplaceMarker(normalized, citation.raw, map2[key])
    /\ ci' = ci + 1
    /\ UNCHANGED <<pc, text, citations, notNorm>>

\* return normalized, citation_map
NormalizeReturn ==
    /\ pc = "normalize"
    /\ ci = Len(citations)
    /\ pc' = "done"
    /\ UNCHANGED <<normVars, notNorm>>

NextNorm == ParseCitations \/ NormalizeStep \/ NormalizeReturn

SpecNorm == InitNorm /\ [][NextNorm]_vars

-----------------------------------------------------------------------------
(* Claims about parse_pageindex_citations and normalize_citations *)

\* C1: when normalize_citations has returned, the returned text holds no
\* substring matching the marker grammar <doc=DOCNAME;page=N>, for every
\* answer text.
C1_NoMarkerLeft == pc = "done" => ~HasMarker(normalized)

\* the answer with every matched marker replaced by the tag of the number the
\* map gives its (documentName, pageNumber)
RECURSIVE SpansReplaced(_, _, _)
SpansReplaced(s, map, i) ==
    IF i > Len(s) THEN <<>>
    ELSE LET m == MatchAt(s, i)
         IN  IF m.ok
             THEN NumberTag(map[CitationKey(MakeCitation(m))])
                      \o SpansReplaced(s, map, m.end + 1)
             ELSE <<s[i]>> \o SpansReplaced(s, map, i + 1)

\* C2: every marker occurrence the parser found is replaced, in the returned
\* text, by the tag [n] of the one number n its (documentName, pageNumber)
\* got, however often the marker is repeated.
C2_EveryOccurrenceReplaced ==
    pc = "done" => normalized = SpansReplaced(text, citation_map, 1)

PairOf(c) == <<c.documentName, c.pageNumber>>

PairsIn(cits) == {PairOf(cits[j]) : j \in 1..Len(cits)}

\* 1 + the number of distinct pairs seen before the first citation with the
\* pair of cits[j]
FirstSeenRank(cits, j) ==
    LET first == CHOOSE f \in 1..j :
                     /\ PairOf(cits[f]) = PairOf(cits[j])
                     /\ \A g \in 1..(f - 1) : PairOf(cits[g]) # PairOf(cits[j])
    IN  1 + Cardinality(PairsIn(SubSeq(cits, 1, first - 1)))

\* C3: after every prefix of the citation list the values of citation_map are
\* exactly 1..k, k the number of distinct (documentName, pageNumber) pairs of
\* the prefix; distinct pairs hold distinct numbers, and each pair holds its
\* first-seen rank, which no later iteration changes.
C3_NumbersContiguous ==
    pc \in {"normalize", "done"} =>
        LET seen == SubSeq(citations, 1, ci)
            k == Cardinality(PairsIn(seen))
        IN  /\ Range(citation_map) = 1..k
            /\ Cardinality(DOMAIN citation_map) = k
            /\ \A j \in 1..ci :
                   /\ CitationKey(seen[j]) \in DOMAIN citation_map
                   /\ citation_map[CitationKey(seen[j])] = FirstSeenRank(seen, j)

\* a repeated pair after two distinct pairs have been numbered
C3_Witness ==
    /\ pc = "done"
    /\ Cardinality(DOMAIN citation_map) >= 2
    /\ ci > Cardinality(DOMAIN citation_map)

-----------------------------------------------------------------------------
(* find_node_by_page_in_map *)

\* float('inf') is the empty tuple and a finite range width w is <<w>>
Inf == <<>>

LessThan(w, smallest) == smallest = Inf \/ w < smallest[1]

\* the loop `for node_id, entry in node_map.items()` from entry k on, with
\* the locals best_match and smallest_range
RECURSIVE ScanMap(_, _, _, _, _)
ScanMap(map, page, k, best, smallest) ==
    IF k > Len(map) THEN best
    ELSE LET entry == map[k]
             start == entry.start_index
             end == entry.end_index
             page_range == end - start
         IN  IF /\ start <= page /\ page <= end
                /\ LessThan(page_range, smallest)
             THEN ScanMap(map, page, k + 1, entry.node, <<page_range>>)
             ELSE ScanMap(map, page, k + 1, best, smallest)

RECURSIVE ScanFirst(_, _, _)
ScanFirst(map, page, k) ==
    IF k > Len(map) THEN None
    ELSE IF map[k].start_index <= page /\ page <= map[k].end_index
         THEN map[k].node
         ELSE ScanFirst(map, page, k + 1)

find_first_containing(map, page) == ScanFirst(map, page, 1)

find_node_by_page_in_map(map, page) == ScanMap(map, page, 1, None, Inf)

-----------------------------------------------------------------------------
(* Specification SpecIndex: one lookup in a flat node map *)

IndexNodeIds == <<"0001", "0002", "0003", "0004", "0005">>

PageRanges == {r \in (1..MaxPage) \X (1..MaxPage) : r[1] <= r[2]}

\* an entry of the map: { "node": {...}, "start_index": s, "end_index": e }
EntryOf(id, r) ==
    [node |-> [node_id |-> id], start_index |-> r[1], end_index |-> r[2]]

NodeMaps ==
    {[k \in DOMAIN rs |-> EntryOf(IndexNodeIds[k], rs[k])] :
        rs \in SeqsUpTo(PageRanges, MaxEntries)}

InitIndex ==
    /\ IdleRepeat
    /\ IdleChat
    /\ IdleNorm
    /\ IdleHl
    /\ IdleResolve
    /\ pc = "lookup"
    /\ node_map \in NodeMaps
    /\ page_num \in 1..MaxPage
    /\ best_match = None

Lookup ==
    /\ pc = "lookup"
    /\ best_match' = find_node_by_page_in_map(node_map, page_num)
    /\ pc' = "found"
    /\ UNCHANGED <<node_map, page_num, notIndex>>

NextIndex == Lookup

SpecIndex == InitIndex /\ [][NextIndex]_vars

Contains(entry, page) == entry.start_index <= page /\ page <= entry.end_index

Width(entry) == entry.end_index - entry.start_index

\* C6: the lookup returns a node only if its entry's range contains the page,
\* returns None only if no entry's range contains the page, and the entry of
\* the returned node has the smallest width among the entries containing it.
C6_SmallestContainingRange ==
    pc = "found" =>
        LET containing == {k \in 1..Len(node_map) : Contains(node_map[k], page_num)}
        IN  /\ (best_match = None) <=> (containing = {})
            /\ best_match # None =>
                   \E k \in containing :
                       /\ node_map[k].node = best_match
                       /\ \A j \in containing : Width(node_map[k]) <= Width(node_map[j])

\* nested ranges, the wider one first: the inner node is returned
C6_Witness ==
    /\ pc = "found"
    /\ Len(node_map) >= 2
    /\ Contains(node_map[1], page_num)
    /\ Contains(node_map[2], page_num)
    /\ Width(node_map[2]) < Width(node_map[1])
    /\ best_match = node_map[2].node

-----------------------------------------------------------------------------
(* Sentence splitting and the two highlight extractors *)

UpperCase ==
    <<"A", "B", "C", "D", "E", "F", "G", "H", "I", "J", "K", "L", "M",
      "N", "O", "P", "Q", "R", "S", "T", "U", "V", "W", "X", "Y", "Z">>
LowerCase ==
    <<"a", "b", "c", "d", "e", "f", "g", "h", "i", "j", "k", "l", "m",
      "n", "o", "p", "q", "r", "s", "t", "u", "v", "w", "x", "y", "z">>

\* str.lower(), one character
LowerChar(c) ==
    IF \E i \in DOMAIN UpperCase : UpperCase[i] = c
    THEN LowerCase[CHOOSE i \in DOMAIN UpperCase : UpperCase[i] = c]
    ELSE c

ToLower(s) == [i \in DOMAIN s |-> LowerChar(s[i])]

\* \w
WordChar == Range(UpperCase) \cup Range(LowerCase) \cup Digit \cup {"_"}

\* \s, and what str.strip() removes
Whitespace == {" ", "\t", "\n", "\r", "\f"}

\* [.!?]
SentenceEnd == {".", "!", "?"}

\* first position >= i holding a character outside S, or Len(s) + 1
RECURSIVE RunEnd(_, _, _)
RunEnd(s, i, S) ==
    IF i > Len(s) \/ s[i] \notin S THEN i ELSE RunEnd(s, i + 1, S)

\* last position <= i holding a character outside S, or 0
RECURSIVE RunStart(_, _, _)
RunStart(s, i, S) ==
    IF i < 1 \/ s[i] \notin S THEN i ELSE RunStart(s, i - 1, S)

\* s.strip()
Strip(s) ==
    LET first == RunEnd(s, 1, Whitespace)
        last == RunStart(s, Len(s), Whitespace)
    IN  IF first > last THEN <<>> ELSE SubSeq(s, first, last)

\* re.findall(r'\w+', s) from position i on
RECURSIVE WordsFrom(_, _)
WordsFrom(s, i) ==
    IF i > Len(s) THEN <<>>
    ELSE IF s[i] \in WordChar
         THEN LET e == RunEnd(s, i, WordChar)
              IN  <<SubSeq(s, i, e - 1)>> \o WordsFrom(s, e)
         ELSE WordsFrom(s, i + 1)

\* re.split(r'(?<=[.!?])\s+', s): the piece begun at `from` ends where a
\* whitespace run follows a sentence end; the run is dropped
RECURSIVE SplitFrom(_, _, _)
SplitFrom(s, i, from) ==
    IF i > Len(s) THEN <<SubSeq(s, from, Len(s))>>
    ELSE IF i > 1 /\ s[i - 1] \in SentenceEnd /\ s[i] \in Whitespace
         THEN LET e == RunEnd(s, i, Whitespace)
              IN  <<SubSeq(s, from, i - 1)>> \o SplitFrom(s, e, e)
         ELSE SplitFrom(s, i + 1, from)

SplitSentences(s) == SplitFrom(s, 1, 1)

\* a in b, for strings
HasSubstring(s, sub) == Find(s, sub) # -1

\* seq[:n]
Take(seq, n) == SubSeq(seq, 1, IF n < Len(seq) THEN n ELSE Len(seq))

\* seq[-n:]; Python's seq[-0:] is the whole sequence
TakeLast(seq, n) ==
    IF n = 0 \/ n >= Len(seq) THEN seq ELSE SubSeq(seq, Len(seq) - n + 1, Len(seq))

\* seq[::-1]
Reverse(seq) == [i \in DOMAIN seq |-> seq[Len(seq) + 1 - i]]

\* the stop words of extract_query_highlights
stop_words ==
    { <<"t", "h", "e">>, <<"a">>, <<"a", "n">>, <<"i", "s">>,
      <<"a", "r", "e">>, <<"w", "a", "s">>, <<"w", "e", "r", "e">>,
      <<"w", "h", "a", "t">>, <<"h", "o", "w">>, <<"w", "h", "y">>,
      <<"w", "h", "e", "n">>, <<"w", "h", "e", "r", "e">>,
      <<"w", "h", "i", "c", "h">>, <<"w", "h", "o">>, <<"d", "o">>,
      <<"d", "o", "e", "s">>, <<"d", "i", "d">>, <<"i", "n">>, <<"o", "n">>,
      <<"a", "t">>, <<"t", "o">>, <<"f", "o", "r">>, <<"o", "f">>,
      <<"a", "n", "d">>, <<"o", "r">>, <<"b", "u", "t">>, <<"n", "o", "t">>,
      <<"t", "h", "i", "s">>, <<"t", "h", "a", "t">>, <<"i", "t">>,
      <<"c", "a", "n">>, <<"w", "i", "l", "l">>, <<"b", "e">>,
      <<"h", "a", "s">>, <<"h", "a", "v", "e">>, <<"h", "a", "d">>,
      <<"w", "i", "t", "h">>, <<"f", "r", "o", "m">>,
      <<"a", "b", "o", "u", "t">>, <<"t", "h", "a", "n">>,
      <<"m", "o", "r", "e">>, <<"m", "o", "s", "t">>, <<"s", "o", "m", "e">>,
      <<"a", "n", "y">>, <<"a", "l", "l">>, <<"e", "a", "c", "h">>,
      <<"w", "o", "u", "l", "d">>, <<"c", "o", "u", "l", "d">>,
      <<"s", "h", "o", "u", "l", "d">>, <<"m", "a", "y">>,
      <<"m", "i", "g", "h", "t">>, <<"m", "u", "c", "h">>,
      <<"m", "a", "n", "y">> }

\* len(sentence) < 20: continue
MinSentenceLen == 20

\* len(s.strip()) > 20
MinSplitLen == 20

\* similarities[idx] > 0.5, similarities in tenths
SimThreshold == 5

\* keywords of extract_query_highlights
Keywords(q) ==
    LET words == WordsFrom(q, 1)
        Keep(w) == ToLower(w) \notin stop_words /\ Len(w) > 2
        kept == SelectSeq(words, Keep)
    IN  [i \in DOMAIN kept |-> ToLower(kept[i])]

\* sum(1 for kw in keywords if kw in sentence_lower)
MatchCount(keywords, sentence) ==
    Cardinality({i \in DOMAIN keywords : HasSubstring(ToLower(sentence), keywords[i])})

KwHighlightShort(sentence, start, score) ==
    [text |-> sentence, startOffset |-> start,
     endOffset |-> start + Len(sentence) - 1, score |-> score]

\* the dict appended to scored_sentences
KwHighlight(sentence, start, score) ==
    [text |-> sentence, startOffset |-> start,
     endOffset |-> start + Len(sentence), score |-> score]

\* the loop over the split pieces: the sentences that get a match count
KwScoredSentences(s) ==
    LET pieces == SplitSentences(s)
        stripped == [i \in DOMAIN pieces |-> Strip(pieces[i])]
        Long(x) == ~(Len(x) < MinSentenceLen)
    IN  SelectSeq(stripped, Long)

\* scored_sentences as the loop leaves it
KwCandidates(s, keywords) ==
    LET sents == KwScoredSentences(s)
        cand == [i \in DOMAIN sents |->
                    [sentence |-> sents[i],
                     count |-> MatchCount(keywords, sents[i]),
                     start |-> Find(s, sents[i])]]
        Found(c) == c.count > 0 /\ c.start # -1
        kept == SelectSeq(cand, Found)
    IN  [i \in DOMAIN kept |->
            KwHighlight(kept[i].sentence, kept[i].start,
                        [num |-> kept[i].count, den |-> Len(keywords)])]

\* a.score > b.score for scores num/den with positive den
ScoreGreater(a, b) == a.num * b.den > b.num * a.den

\* list.sort(key=score, reverse=True): stable, equal scores keep their order
RECURSIVE SortByScoreDesc(_)
SortByScoreDesc(seq) ==
    IF seq = <<>> THEN <<>>
    ELSE LET best == CHOOSE i \in DOMAIN seq :
                        /\ \A j \in DOMAIN seq : ~ScoreGreater(seq[j].score, seq[i].score)
                        /\ \A j \in 1..(i - 1) : ScoreGreater(seq[i].score, seq[j].score)
             rest == [j \in 1..(Len(seq) - 1) |-> IF j < best THEN seq[j] ELSE seq[j + 1]]
         IN  <<seq[best]>> \o SortByScoreDesc(rest)

StripScore(h) ==
    [text |-> h.text, startOffset |-> h.startOffset, endOffset |-> h.endOffset]

extract_query_highlights(s, q, max_hl) ==
    IF s = <<>> \/ q = <<>> THEN <<>>
    ELSE LET keywords == Keywords(q)
         IN  IF keywords = <<>> THEN <<>>
             ELSE LET top == Take(SortByScoreDesc(KwCandidates(s, keywords)), max_hl)
                  IN  [i \in DOMAIN top |-> StripScore(top[i])]

\* the sentences extract_query_highlights computes a match count for
KwScored(s, q) ==
    IF s = <<>> \/ q = <<>> \/ Keywords(q) = <<>> THEN <<>>
    ELSE KwScoredSentences(s)

\* split_into_sentences of backend_example.py
split_into_sentences(s) ==
    LET pieces == SplitSentences(s)
        stripped == [i \in DOMAIN pieces |-> Strip(pieces[i])]
        Long(x) == x # <<>> /\ Len(x) > MinSplitLen
    IN  SelectSeq(stripped, Long)

\* the dict appended to highlights in extract_highlights
SemHighlight(sentence, start) ==
    [text |-> sentence, startOffset |-> start, endOffset |-> start + Len(sentence)]

\* the loop `for idx in top_indices` of extract_highlights
RECURSIVE SemLoop(_, _, _, _)
SemLoop(s, sentences, sims, top_indices) ==
    IF top_indices = <<>> THEN <<>>
    ELSE LET idx == Head(top_indices)
             start == Find(s, sentences[idx])
             here == IF sims[idx] > SimThreshold /\ start # -1
                     THEN <<SemHighlight(sentences[idx], start)>>
                     ELSE <<>>
         IN  here \o SemLoop(s, sentences, sims, Tail(top_indices))

\* np.argsort(similarities): a permutation of the indices in ascending order
\* of similarity; the order among equal similarities is the sort kernel's
IsArgsort(perm, sims) ==
    /\ Range(perm) = DOMAIN sims
    /\ \A i \in 1..(Len(perm) - 1) : sims[perm[i]] <= sims[perm[i + 1]]

Argsorts(sims) ==
    {perm \in [DOMAIN sims -> DOMAIN sims] : IsArgsort(perm, sims)}

\* extract_highlights after the similarities and their argsort are known
extract_highlights(s, sims, order, max_hl) ==
    LET sentences == split_into_sentences(s)
    IN  IF sentences = <<>> THEN <<>>
        ELSE SemLoop(s, sentences, sims, Reverse(TakeLast(order, max_hl)))

-----------------------------------------------------------------------------
(* Specification SpecHl: one call of either highlight extractor *)

Fill(n) == [i \in 1..n |-> "x"]

\* sentences of 20, 19, 21 and 22 characters, and whitespace runs
TextPieces ==
    { <<"a", "a", "a">> \o Fill(MinSentenceLen - 4) \o <<".">>,
      <<"b", "b", "b">> \o Fill(MinSentenceLen - 5) \o <<"!">>,
      <<"A", "a", "a", " ", "b", "b", "b">> \o Fill(MinSentenceLen - 7) \o <<"?">>,
      <<"c", "c", "c">> \o Fill(MinSentenceLen - 2) \o <<".">>,
      <<" ">>,
      <<" ", "\n">> }

SectionTexts == {Flatten(ps) : ps \in SeqsUpTo(TextPieces, MaxPieces)}

Queries ==
    { <<>>,
      <<"a", "a", "a">>,
      <<"t", "h", "e", " ", "a", "b">>,
      <<"B", "b", "b", " ", "a", "a", "a", "?">> }

\* cosine similarities the embedding provider may yield, in tenths
SimValues == {5, 6, 7}

MaxHighlightValues == {0, 1, 3}

InitHl ==
    /\ IdleRepeat
    /\ IdleChat
    /\ IdleNorm
    /\ IdleIndex
    /\ IdleResolve
    /\ pc = "extract"
    /\ sectionText \in SectionTexts
    /\ query \in Queries
    /\ max_highlights \in MaxHighlightValues
    /\ scored = <<>>
    /\ similarities = <<>>
    /\ highlights = <<>>

\* extract_query_highlights(text, query, max_highlights)
ExtractQueryHighlights ==
    /\ pc = "extract"
    /\ highlights' = extract_query_highlights(sectionText, query, max_highlights)
    /\ scored' = KwScored(sectionText, query)
    /\ pc' = "kw_done"
    /\ UNCHANGED <<sectionText, query, max_highlights, similarities, notHl>>

\* extract_highlights(chunk_text, query, max_highlights): the embedding model
\* chooses the similarities, equal for equal sentences, and the argsort kernel
\* the order among equal similarities
ExtractHighlights ==
    /\ pc = "extract"
    /\ LET sentences == split_into_sentences(sectionText)
       IN  \E sims \in [DOMAIN sentences -> SimValues] :
           \E order \in Argsorts(sims) :
               /\ \A i, j \in DOMAIN sentences :
                      sentences[i] = sentences[j] => sims[i] = sims[j]
               /\ highlights' = extract_highlights(sectionText, sims, order, max_highlights)
               /\ scored' = sentences
               /\ similarities' = sims
    /\ pc' = "sem_done"
    /\ UNCHANGED <<sectionText, query, max_highlights, notHl>>

NextHl == ExtractQueryHighlights \/ ExtractHighlights

SpecHl == InitHl /\ [][NextHl]_vars

\* C4: every highlight either extractor returns has offsets with
\* 0 <= startOffset < endOffset <= len(text), and the text between the
\* offsets is the highlight's text.
C4_OffsetRoundTrip ==
    pc \in {"kw_done", "sem_done"} =>
        \A i \in DOMAIN highlights :
            LET h == highlights[i]
            IN  /\ 0 <= h.startOffset
                /\ h.startOffset < h.endOffset
                /\ h.endOffset <= Len(sectionText)
                /\ SubSeq(sectionText, h.startOffset + 1, h.endOffset) = h.text

\* two highlights returned, one of them not at the start of the text
C4_Witness ==
    /\ pc = "kw_done"
    /\ Len(highlights) >= 2
    /\ \E i \in DOMAIN highlights : highlights[i].startOffset > 0

\* C5: with an empty section text or an empty query either extractor returns
\* no highlight and has scored no sentence.
C5_EmptyInputEmptyResult ==
    (pc \in {"kw_done", "sem_done"} /\ (sectionText = <<>> \/ query = <<>>)) =>
        (highlights = <<>> /\ scored = <<>>)

-----------------------------------------------------------------------------
(* Tree search, the flat node map and source assembly *)

\* dict.get(field, default)
Get(d, field, default) == IF field \in DOMAIN d THEN d[field] ELSE default

\* None where a string is expected
NoneStr == <<"None">>

Abs(n) == IF n < 0 THEN -n ELSE n

\* the nodes of a tree in the order a recursive search visits them
RECURSIVE Preorder(_)
Preorder(nodes) ==
    IF nodes = <<>> THEN <<>>
    ELSE <<Head(nodes)>> \o Preorder(Get(Head(nodes), "nodes", <<>>))
                         \o Preorder(Tail(nodes))

\* find_node_by_page: the first node, parents before children, whose
\* page_index is the page
find_node_by_page(tree_nodes, page) ==
    LET all == Preorder(tree_nodes)
        hits == {k \in DOMAIN all :
                    "page_index" \in DOMAIN all[k] /\ all[k].page_index = page}
    IN  IF hits = {} THEN None
        ELSE all[CHOOSE k \in hits : \A j \in hits : k <= j]

\* find_closest_node: the first node in search order with the least
\* abs(page_index - page_num)
find_closest_node(tree_nodes, page) ==
    LET all == Preorder(tree_nodes)
        Dist(k) == Abs(Get(all[k], "page_index", 0) - page)
    IN  IF all = <<>> THEN None
        ELSE all[CHOOSE k \in DOMAIN all :
                    /\ \A j \in DOMAIN all : Dist(k) <= Dist(j)
                    /\ \A j \in 1..(k - 1) : Dist(j) > Dist(k)]

\* build_node_map: { node_id: { "node": ..., "start_index": s, "end_index": e } }
\* for every node of the tree, as utils.create_node_mapping returns it with
\* include_page_ranges=True
build_node_map(tree) ==
    LET all == Preorder(tree)
    IN  [k \in DOMAIN all |->
            [key |-> all[k].node_id, node |-> all[k],
             start_index |-> all[k].start_index,
             end_index |-> all[k].end_index]]

\* node_id in node_map
InMap(map, node_id) == \E k \in DOMAIN map : map[k].key = node_id

\* node_map[node_id]
MapEntry(map, node_id) == map[CHOOSE k \in DOMAIN map : map[k].key = node_id]

\* the tree fetch of rag_query and rag_stream: locals tree and node_map
\* (tree is <<>> both for None and for an empty result: the code only tests
\* `if tree`)
NoTree == [tree |-> <<>>, node_map |-> <<>>]

FetchTree(req, tresp) ==
    IF req.docId = NoneStr \/ tresp.outcome = "raise"
       \/ tresp.status # "completed"
    THEN NoTree
    ELSE [tree |-> tresp.result,
          node_map |-> IF tresp.result # <<>> THEN build_node_map(tresp.result)
                       ELSE <<>>]

\* "Try to find the tree node for this page"
FindNode(f, page) ==
    IF f.node_map # <<>> THEN find_node_by_page_in_map(f.node_map, page)
    ELSE IF f.tree # <<>>
         THEN LET exact == find_node_by_page(f.tree, page)
              IN  IF exact # None THEN exact ELSE find_closest_node(f.tree, page)
         ELSE None

NoEndPage(f, node, page) == 0

\* rag_query: end_page
QueryEndPage(f, node, page) ==
    IF node # None /\ f.node_map # <<>>
       /\ InMap(f.node_map, Get(node, "node_id", <<>>))
    THEN Get(MapEntry(f.node_map, Get(node, "node_id", <<>>)), "end_index", page)
    ELSE page

\* rag_stream: end_page
StreamEndPage(f, node, page) ==
    IF f.node_map # <<>> /\ node # None
       /\ InMap(f.node_map, Get(node, "node_id", NoneStr))
    THEN Get(MapEntry(f.node_map, node.node_id), "end_index", page)
    ELSE page

\* max_highlights: int = 3
DefaultMaxHighlights == 3

Underscore == <<"_">>
PagePrefix == <<"p", "a", "g", "e", "_">>
Unknown == <<"u", "n", "k", "n", "o", "w", "n">>

BareTitle(page) == <<"P", "a", "g", "e">>

\* f"Page {citation['pageNumber']}"
PageTitle(page) == <<"P", "a", "g", "e", " ">> \o IntToStr(page)

\* node.get("summary", node.get("prefix_summary", ""))
SummaryOf(node) == Get(node, "summary", Get(node, "prefix_summary", <<>>))

\* the DocumentSource rag_query appends for one citation
QuerySource(citation, num, f, q) ==
    LET page == citation.pageNumber
        node == FindNode(f, page)
        end_page == QueryEndPage(f, node, page)
        section_text == IF node # None THEN Get(node, "text", <<>>) ELSE <<>>
        section_title == IF node # None THEN Get(node, "title", PageTitle(page))
                         ELSE PageTitle(page)
        section_summary == IF node # None THEN SummaryOf(node) ELSE <<>>
        node_id == IF node # None
                   THEN Get(node, "node_id", PagePrefix \o IntToStr(page))
                   ELSE PagePrefix \o IntToStr(page)
    IN  [id |-> citation.documentName \o Underscore \o node_id,
         nodeId |-> node_id,
         title |-> section_title,
         documentName |-> citation.documentName,
         pageIndex |-> page,
         endPageIndex |-> end_page,
         content |-> section_text,
         summary |-> section_summary,
         citationNumber |-> num,
         highlights |-> extract_query_highlights(section_text, q, DefaultMaxHighlights)]

\* the source dict rag_stream yields for one citation
StreamSource(citation, num, f, q) ==
    LET page == citation.pageNumber
        node == FindNode(f, page)
        section_text == IF node # None THEN Get(node, "text", <<>>) ELSE <<>>
    IN  [id |-> citation.documentName \o Underscore
                    \o (IF node # None THEN Get(node, "node_id", Unknown) ELSE Unknown),
         nodeId |-> IF node # None THEN Get(node, "node_id", NoneStr) ELSE NoneStr,
         title |-> IF node # None THEN Get(node, "title", PageTitle(page))
                   ELSE PageTitle(page),
         documentName |-> citation.documentName,
         pageIndex |-> page,
         endPageIndex |-> StreamEndPage(f, node, page),
         content |-> section_text,
         summary |-> IF node # None THEN SummaryOf(node) ELSE <<>>,
         citationNumber |-> num,
         highlights |-> extract_query_highlights(section_text, q, DefaultMaxHighlights)]

\* rag_query: the loop `for citation in citations` from citation k on
RECURSIVE QuerySourcesNoDedup(_, _, _, _, _, _)
QuerySourcesNoDedup(cits, k, seen, map, f, q) ==
    IF k > Len(cits) THEN <<>>
    ELSE LET key == CitationKey(cits[k])
         IN  <<QuerySource(cits[k], map[key], f, q)>>
                 \o QuerySourcesNoDedup(cits, k + 1, seen \cup {key}, map, f, q)

RECURSIVE QuerySources(_, _, _, _, _, _)
QuerySources(cits, k, seen, map, f, q) ==
    IF k > Len(cits) THEN <<>>
    ELSE LET key == CitationKey(cits[k])
         IN  IF key \in seen THEN QuerySources(cits, k + 1, seen, map, f, q)
             ELSE <<QuerySource(cits[k], map[key], f, q)>>
                      \o QuerySources(cits, k + 1, seen \cup {key}, map, f, q)

\* rag_query from the raw answer on: the QueryResponse
rag_query(raw_answer, req, tresp) ==
    LET cits == parse_pageindex_citations(raw_answer)
        norm == normalize_citations(raw_answer, cits)
        f == IF cits # <<>> THEN FetchTree(req, tresp) ELSE NoTree
    IN  [answer |-> norm.normalized,
         sources |-> IF cits # <<>>
                     THEN QuerySources(cits, 1, {}, norm.citation_map, f, req.query)
                     ELSE <<>>]

-----------------------------------------------------------------------------
(* Specification SpecResolve: one /api/rag/query request, then one           *)
(* /api/rag/stream request, for the same query, document and upstream answer *)

P1 == <<"a", "a", "a">> \o Fill(MinSentenceLen - 4) \o <<".">>
P3 == <<"A", "a", "a", " ", "b", "b", "b">> \o Fill(MinSentenceLen - 7) \o <<"?">>

\* a chapter on pages 2-5 with a subsection on page 5
TreeNested ==
    << [node_id |-> <<"0", "1">>, title |-> <<"T", "1">>,
        text |-> P1 \o <<" ">> \o P3, summary |-> <<"s", "1">>,
        page_index |-> 2, start_index |-> 2, end_index |-> 5,
        nodes |-> << [node_id |-> <<"0", "2">>, text |-> P3,
                      prefix_summary |-> <<"s", "2">>,
                      page_index |-> 5, start_index |-> 5, end_index |-> 5] >>] >>

\* two sections, neither holding page 2 or page 5
TreeFar ==
    << [node_id |-> <<"0", "3">>, title |-> <<"T", "3">>, text |-> P1,
        summary |-> <<"s", "3">>,
        page_index |-> 3, start_index |-> 3, end_index |-> 4],
       [node_id |-> <<"0", "4">>, title |-> <<"T", "4">>, text |-> <<>>,
        summary |-> <<"s", "4">>,
        page_index |-> 6, start_index |-> 6, end_index |-> 6] >>

Trees == {<<>>, TreeNested, TreeFar}

TreeResponses ==
    {[outcome |-> "raise", status |-> "", result |-> <<>>],
     [outcome |-> "ok", status |-> "processing", result |-> <<>>]}
    \cup {[outcome |-> "ok", status |-> "completed", result |-> t] : t \in Trees}

DocIds == {NoneStr, <<"p", "i">>}

AnswerWord == <<"A", "n", "s", "w", "e", "r", " ">>
MarkerA5 ==
    DocOpen \o <<"a", ".", "p", "d", "f">> \o PageSep \o <<"5">> \o MarkerClose

\* an upstream chunk: its block_metadata type ("" when it has none) and its
\* delta content
Chunk(block_type, content) == [block_type |-> block_type, content |-> content]

UpstreamChunks ==
    { Chunk("", MarkerA5),                                \* <doc=a.pdf;page=5>
      Chunk("", DocOpen \o <<"b">> \o PageSep \o <<"2">> \o MarkerClose),
      Chunk("", DocOpen \o <<"b">>),                      \* <doc=b
      Chunk("", PageSep \o <<"2">> \o MarkerClose),       \* ;page=2>
      Chunk("text_block_start", AnswerWord),
      Chunk("mcp_tool_use_start", <<>>),
      Chunk("mcp_tool_result_start", <<>>),
      Chunk("", <<>>) }

ToolTypes == {"mcp_tool_use_start", "mcp_tool_result_start"}

Requests ==
    {[query |-> q, docId |-> d, enableCitations |-> e] :
        q \in {<<>>, <<"a", "a", "a">>}, d \in DocIds, e \in BOOLEAN}

\* response["choices"][0]["message"]["content"] of the non-streaming call:
\* the content the streaming call delivers in pieces
RECURSIVE AnswerOf(_)
AnswerOf(chunks) ==
    IF chunks = <<>> THEN <<>>
    ELSE (IF Head(chunks).block_type \in ToolTypes THEN <<>> ELSE Head(chunks).content)
             \o AnswerOf(Tail(chunks))

InitResolve ==
    /\ IdleRepeat
    /\ IdleChat
    /\ IdleNorm
    /\ IdleIndex
    /\ IdleHl
    /\ pc = "query"
    /\ request \in Requests
    /\ upstream \in SeqsUpTo(UpstreamChunks, MaxUpstream)
    /\ tree_response \in TreeResponses
    /\ (request.docId = NoneStr => tree_response.outcome = "raise")
    /\ response = <<>>
    /\ pos = 0
    /\ full_answer = <<>>
    /\ events = <<>>
    /\ fetched = NoTree
    /\ stream_citations = <<>>
    /\ si = 0
    /\ seen_keys = {}
    /\ citation_num = 0

\* POST /api/rag/query
RagQuery ==
    /\ pc = "query"
    /\ response' = rag_query(AnswerOf(upstream), request, tree_response)
    /\ pc' = "streaming"
    /\ UNCHANGED <<envVars, streamVars, notResolve>>

ToolEvent(block_type) ==
    IF block_type = "mcp_tool_use_start"
    THEN [type |-> "tool_start"]
    ELSE [type |-> "tool_result"]

AccumulateLatest(answer, content) == content

\* full_answer += content
Accumulate(answer, content) == answer \o content

\* rag_stream.generate: one iteration of the loop over the upstream chunks
StreamChunk ==
    /\ pc = "streaming"
    /\ pos < Len(upstream)
    /\ LET chunk == upstream[pos + 1]
       IN  IF chunk.block_type \in ToolTypes
           THEN /\ events' = Append(events, ToolEvent(chunk.block_type))
                /\ UNCHANGED full_answer
           ELSE IF chunk.content # <<>>
                THEN /\ full_answer' = Accumulate(full_answer, chunk.content)
                     /\ events' = Append(events,
                                         [type |-> "token", content |-> chunk.content])
                ELSE UNCHANGED <<full_answer, events>>
    /\ pos' = pos + 1
    /\ UNCHANGED <<pc, envVars, response, fetched, stream_citations, si,
                   seen_keys, citation_num, notResolve>>

AbortThenResolve ==
    /\ pc = "streaming"
    /\ pc' = "aborted"
    /\ stream_citations' = parse_pageindex_citations(full_answer)
    /\ events' = events \o
           [i \in DOMAIN parse_pageindex_citations(full_answer) |->
               [type |-> "source",
                source |-> StreamSource(parse_pageindex_citations(full_answer)[i],
                                        i, NoTree, request.query)]]
    /\ UNCHANGED <<envVars, response, pos, full_answer, fetched, si,
                   seen_keys, citation_num, notResolve>>

\* the upstream iterator raises, or the consumer closes the generator: the
\* generator ends where it stands
StreamAbort ==
    /\ pc = "streaming"
    /\ pc' = "aborted"
    /\ UNCHANGED <<resolveVars, notResolve>>

\* the upstream is exhausted: parse the citations and fetch the tree
StreamEnd ==
    /\ pc = "streaming"
    /\ pos = Len(upstream)
    /\ LET cits == IF request.enableCitations
                   THEN parse_pageindex_citations(full_answer) ELSE <<>>
       IN  /\ stream_citations' = cits
           /\ fetched' = IF cits # <<>> THEN FetchTree(request, tree_response)
                         ELSE NoTree
    /\ si' = 0
    /\ seen_keys' = {}
    /\ citation_num' = 0
    /\ pc' = "resolving"
    /\ UNCHANGED <<envVars, response, pos, full_answer, events, notResolve>>

AlwaysEmit(key, seen) == FALSE

\* if key in seen_keys: continue
SkipCitation(key, seen) == key \in seen

\* one iteration of `for citation in citations`
ResolveStep ==
    /\ pc = "resolving"
    /\ si < Len(stream_citations)
    /\ LET citation == stream_citations[si + 1]
           key == CitationKey(citation)
       IN  IF SkipCitation(key, seen_keys)
           THEN UNCHANGED <<seen_keys, citation_num, events>>
           ELSE /\ seen_keys' = seen_keys \cup {key}
                /\ citation_num' = citation_num + 1
                /\ events' = Append(events,
                       [type |-> "source",
                        source |-> StreamSource(citation, citation_num + 1,
                                                fetched, request.query)])
    /\ si' = si + 1
    /\ UNCHANGED <<pc, envVars, response, pos, full_answer, fetched,
                   stream_citations, notResolve>>

NoDoneSignal == [type |-> "token", content |-> <<>>]

\* {'type': 'done'}
DoneSignal == [type |-> "done"]

\* "Send done signal"
StreamDone ==
    /\ pc = "resolving"
    /\ si = Len(stream_citations)
    /\ events' = Append(events, DoneSignal)
    /\ pc' = "done"
    /\ UNCHANGED <<envVars, response, pos, full_answer, fetched,
                   stream_citations, si, seen_keys, citation_num, notResolve>>

NextResolve ==
    RagQuery \/ StreamChunk \/ StreamAbort \/ StreamEnd \/ ResolveStep \/ StreamDone

SpecResolve == InitResolve /\ [][NextResolve]_vars

-----------------------------------------------------------------------------
(* Two calls of rag_stream with the same request, upstream and tree *)

InitRepeat ==
    /\ IdleRepeat
    /\ IdleChat
    /\ IdleNorm
    /\ IdleIndex
    /\ IdleHl
    /\ pc = "streaming"
    /\ request \in Requests
    /\ upstream \in SeqsUpTo(UpstreamChunks, MaxUpstream)
    /\ tree_response \in TreeResponses
    /\ (request.docId = NoneStr => tree_response.outcome = "raise")
    /\ response = <<>>
    /\ pos = 0
    /\ full_answer = <<>>
    /\ events = <<>>
    /\ fetched = NoTree
    /\ stream_citations = <<>>
    /\ si = 0
    /\ seen_keys = {}
    /\ citation_num = 0

NextRunKeepingAnswer ==
    /\ pc = "done"
    /\ run = 1
    /\ run' = 2
    /\ first_events' = events
    /\ events' = <<>>
    /\ pos' = 0
    /\ pc' = "streaming"
    /\ UNCHANGED <<envVars, response, full_answer, fetched, stream_citations,
                   si, seen_keys, citation_num, normVars, indexVars, hlVars,
                   chatVars>>

\* the second POST /api/rag/stream: a new generate() with a new upstream
\* iterator and `full_answer = ""`; the other locals are assigned later, by
\* the code after the loop
NextRun ==
    /\ pc = "done"
    /\ run = 1
    /\ run' = 2
    /\ first_events' = events
    /\ events' = <<>>
    /\ pos' = 0
    /\ full_answer' = <<>>
    /\ pc' = "streaming"
    /\ UNCHANGED <<envVars, response, fetched, stream_citations, si,
                   seen_keys, citation_num, normVars, indexVars, hlVars,
                   chatVars>>

NextRepeat == StreamChunk \/ StreamEnd \/ ResolveStep \/ StreamDone \/ NextRun

SpecRepeat == InitRepeat /\ [][NextRepeat]_vars

-----------------------------------------------------------------------------
(* Claims about rag_query and rag_stream *)

\* the request's document has a completed, non-empty section tree
TreeAvailable ==
    /\ request.docId # NoneStr
    /\ tree_response.outcome = "ok"
    /\ tree_response.status = "completed"
    /\ tree_response.result # <<>>

TreeNodes == Preorder(tree_response.result)

SomeRangeContains(page) ==
    \E k \in DOMAIN TreeNodes :
        TreeNodes[k].start_index <= page /\ page <= TreeNodes[k].end_index

\* node_id names a tree node whose start page is nearest to page
IsClosestNode(node_id, page) ==
    \E k \in DOMAIN TreeNodes :
        /\ TreeNodes[k].node_id = node_id
        /\ \A j \in DOMAIN TreeNodes :
               Abs(TreeNodes[k].start_index - page)
                   <= Abs(TreeNodes[j].start_index - page)

QueryResponded == pc \in {"streaming", "resolving", "done", "aborted"}

\* rag_query has just returned; no later step changes its response
QueryReturned == pc = "streaming" /\ pos = 0

SourceEvents == SelectSeq(events, LAMBDA e : e.type = "source")

\* the sources rag_query returned and the sources rag_stream has emitted
AllSources ==
    (IF QueryResponded THEN Range(response.sources) ELSE {})
        \cup {SourceEvents[i].source : i \in DOMAIN SourceEvents}

\* C7: with a section tree available, a citation whose page no section's
\* range contains resolves to a tree node whose start page is nearest to the
\* cited page, and no source is the placeholder.
C7_ClosestNodeFallback ==
    \A s \in AllSources :
        TreeAvailable =>
            /\ s.nodeId # NoneStr
            /\ s.nodeId # PagePrefix \o IntToStr(s.pageIndex)
            /\ ~SomeRangeContains(s.pageIndex) => IsClosestNode(s.nodeId, s.pageIndex)

RawAnswer == AnswerOf(upstream)

AnswerCitations == parse_pageindex_citations(RawAnswer)

NormalizationMap == normalize_citations(RawAnswer, AnswerCitations).citation_map

\* the citation of page resolves to no section node
ResolvesToNoNode(page) == ~TreeAvailable \/ ~SomeRangeContains(page)

IsPlaceholderFor(s, c) ==
    /\ s.documentName = c.documentName
    /\ s.pageIndex = c.pageNumber
    /\ s.title = <<"P", "a", "g", "e", " ">> \o IntToStr(c.pageNumber)
    /\ s.content = <<>>
    /\ s.highlights = <<>>
    /\ s.citationNumber = NormalizationMap[CitationKey(c)]

\* C8: every citation of page N that resolves to no section node still has a
\* source in rag_query's response, with title "Page N", content "", no
\* highlights, pageIndex N and the citation number of the normalization map;
\* the answer "Answer <doc=a.pdf;page=5>" with no tree yields exactly one
\* source, with pageIndex 5, content "", citationNumber 1, and the normalized
\* answer "Answer [1]".
C8_PlaceholderSource ==
    QueryReturned =>
        /\ \A j \in DOMAIN AnswerCitations :
               ResolvesToNoNode(AnswerCitations[j].pageNumber) =>
                   \E i \in DOMAIN response.sources :
                       IsPlaceholderFor(response.sources[i], AnswerCitations[j])
        /\ (RawAnswer = AnswerWord \o MarkerA5 /\ ~TreeAvailable) =>
               /\ Len(response.sources) = 1
               /\ response.sources[1].pageIndex = 5
               /\ response.sources[1].content = <<>>
               /\ response.sources[1].citationNumber = 1
               /\ response.answer = AnswerWord \o <<"[", "1", "]">>

\* "Answer <doc=a.pdf;page=5>" was answered for a request without a tree
C8_Witness ==
    /\ QueryReturned
    /\ RawAnswer = AnswerWord \o MarkerA5
    /\ ~TreeAvailable
    /\ Len(response.sources) = 1

\* C9: rag_query returns one source per distinct (documentName, pageNumber)
\* pair cited; the i-th source has citationNumber i and is the source of the
\* i-th pair in order of first appearance; without citations there is none.
C9_SourcesInFirstAppearanceOrder ==
    QueryReturned =>
        /\ Len(response.sources) = Cardinality(PairsIn(AnswerCitations))
        /\ \A i \in DOMAIN response.sources : response.sources[i].citationNumber = i
        /\ \A j \in DOMAIN AnswerCitations :
               LET r == FirstSeenRank(AnswerCitations, j)
               IN  /\ r <= Len(response.sources)
                   /\ response.sources[r].documentName = AnswerCitations[j].documentName
                   /\ response.sources[r].pageIndex = AnswerCitations[j].pageNumber

\* two pairs cited, one of them twice
C9_Witness ==
    /\ QueryReturned
    /\ Len(response.sources) >= 2
    /\ Len(AnswerCitations) > Len(response.sources)

\* C10: in one run of rag_stream no two source events are about the same
\* (documentName, pageNumber).
C10_OneSourceEventPerKey ==
    \A i, j \in DOMAIN SourceEvents :
        (/\ SourceEvents[i].source.documentName = SourceEvents[j].source.documentName
         /\ SourceEvents[i].source.pageIndex = SourceEvents[j].source.pageIndex)
            => i = j

\* the stream ended with a marker repeated and two source events emitted
C10_Witness ==
    /\ pc = "done"
    /\ Len(SourceEvents) >= 2
    /\ Len(stream_citations) > Len(SourceEvents)

\* C11: in a run of rag_stream the upstream completes, the events follow
\* STREAMING -> RESOLVING -> DONE: source events are emitted only once every
\* upstream chunk has been consumed, nothing but source events and the done
\* event follows a source event, and the done event is emitted exactly once,
\* as the last event of the finished run.
C11_StreamingResolvingDone ==
    /\ \A i \in DOMAIN events :
           events[i].type = "source" =>
               /\ pc \in {"resolving", "done"}
               /\ pos = Len(upstream)
               /\ \A j \in DOMAIN events :
                      i < j => events[j].type \in {"source", "done"}
    /\ \A i \in DOMAIN events :
           events[i].type = "done" => (pc = "done" /\ i = Len(events))
    /\ pc = "done" => (events # <<>> /\ events[Len(events)].type = "done")

\* a finished run with tokens, a tool event and two sources
C11_Witness ==
    /\ pc = "done"
    /\ \E i \in DOMAIN events : events[i].type = "token"
    /\ \E i \in DOMAIN events : events[i].type \in {"tool_start", "tool_result"}
    /\ Len(SourceEvents) >= 1

\* C12: when the upstream is aborted while rag_stream is consuming tokens, the
\* abort itself consumes no chunk, parses no citation, fetches no tree and
\* leaves the emitted events as they are, no source event among them, and the
\* generator takes no step afterwards.
C12_AbortStopsTheStream ==
    [][ /\ pc # "aborted"
        /\ pc' = "aborted" =>
               /\ events' = events
               /\ pos' = pos
               /\ full_answer' = full_answer
               /\ stream_citations' = <<>>
               /\ fetched' = NoTree
               /\ SourceEvents' = <<>> ]_vars

\* aborted before the upstream ended, with a whole marker already streamed
C12_Witness ==
    /\ pc = "aborted"
    /\ pos < Len(upstream)
    /\ HasMarker(full_answer)
    /\ request.enableCitations
    /\ \E i \in DOMAIN events : events[i].type = "token"

\* C13: at the end of a stream with citations enabled, the source events of
\* rag_stream are the sources rag_query returned for the same upstream, query
\* and tree: as many, in the same order, equal in every field.
C13_StreamSourcesEqualQuerySources ==
    (pc = "done" /\ request.enableCitations) =>
        /\ Len(SourceEvents) = Len(response.sources)
        /\ \A i \in DOMAIN SourceEvents :
               i <= Len(response.sources) =>
                   SourceEvents[i].source = response.sources[i]

\* C14: a second call of rag_stream with the same request, upstream chunks
\* and tree yields the event sequence of the first call, its source events
\* included.
C14_SecondRunIdentical ==
    (pc = "done" /\ run = 2) => events = first_events

\* both calls finished, with two sources and a repeated marker
C14_Witness ==
    /\ pc = "done"
    /\ run = 2
    /\ Len(SourceEvents) >= 2
    /\ Len(stream_citations) > Len(SourceEvents)
    /\ events = first_events

-----------------------------------------------------------------------------
(* Claims about the order, the number and the spans of the highlights *)

\* the sentences the finished extractor considered, in text order
Sentences ==
    IF pc = "kw_done" THEN KwScoredSentences(sectionText)
    ELSE split_into_sentences(sectionText)

\* relevance of the k-th sentence: its match count (the keyword score is the
\* count over the number of keywords, the same for every sentence of a call),
\* or its similarity in tenths
Relevance(k) ==
    IF pc = "kw_done" THEN MatchCount(Keywords(query), Sentences[k])
    ELSE similarities[k]

\* relevance at or below which a sentence is never returned
Threshold == IF pc = "kw_done" THEN 0 ELSE SimThreshold

\* ways to read the returned highlights as distinct sentences of the text
Readings ==
    {f \in [DOMAIN highlights -> DOMAIN Sentences] :
        /\ \A i \in DOMAIN highlights : Sentences[f[i]] = highlights[i].text
        /\ \A i, j \in DOMAIN highlights : i # j => f[i] # f[j]}

\* C15: the highlights either extractor returns are in descending order of
\* relevance, and of two sentences with equal relevance the one earlier in
\* the text comes first.
C15_DescendingStableOrder ==
    pc \in {"kw_done", "sem_done"} =>
        \E f \in Readings :
            \A i, j \in DOMAIN highlights :
                i < j =>
                    \/ Relevance(f[i]) > Relevance(f[j])
                    \/ (Relevance(f[i]) = Relevance(f[j]) /\ f[i] < f[j])

\* C16: either extractor returns at most max_highlights highlights, also for
\* max_highlights = 0; every returned sentence has a relevance above the
\* threshold, and no sentence left out that is above the threshold has a
\* higher relevance than a returned one.
C16_AtMostMaxAboveThreshold ==
    pc \in {"kw_done", "sem_done"} =>
        /\ Len(highlights) <= max_highlights
        /\ \E f \in Readings :
               /\ \A i \in DOMAIN highlights : Relevance(f[i]) > Threshold
               /\ \A k \in DOMAIN Sentences :
                      (k \notin Range(f) /\ Relevance(k) > Threshold) =>
                          \A i \in DOMAIN highlights :
                              Relevance(k) <= Relevance(f[i])

\* C17: the spans of two distinct highlights of one extraction are disjoint.
C17_SpansDisjoint ==
    pc \in {"kw_done", "sem_done"} =>
        \A i, j \in DOMAIN highlights :
            i # j =>
                \/ highlights[i].endOffset <= highlights[j].startOffset
                \/ highlights[j].endOffset <= highlights[i].startOffset

\* the trimmed pieces of the text that are at least 20 characters long
PiecesOfMinLength ==
    LET pieces == SplitSentences(sectionText)
        trimmed == [i \in DOMAIN pieces |-> Strip(pieces[i])]
        Kept(x) == Len(x) >= 20
    IN  SelectSeq(trimmed, Kept)

\* C18: the sentences either extractor goes on to score are the trimmed
\* pieces of at least 20 characters, in text order: a piece of 19 characters
\* is dropped, a piece of 20 is kept.
C18_MinimumSentenceLength ==
    /\ pc = "sem_done" => scored = PiecesOfMinLength
    /\ (pc = "kw_done" /\ sectionText # <<>> /\ Keywords(query) # <<>>) =>
           scored = PiecesOfMinLength

-----------------------------------------------------------------------------
(* Claim about parse_pageindex_citations *)

PositionsOf(t, ch) == {q \in DOMAIN t : t[q] = ch}

\* t holds a well-formed marker from position p to position e, its DOCNAME
\* ending before the ';' at position k
WellFormed(t, p, k, e) ==
    /\ p + 4 <= Len(t)
    /\ SubSeq(t, p, p + 4) = <<"<", "d", "o", "c", "=">>
    /\ k > p + 5
    /\ \A q \in (p + 5)..(k - 1) : t[q] # ";"
    /\ k + 5 <= Len(t)
    /\ SubSeq(t, k, k + 5) = <<";", "p", "a", "g", "e", "=">>
    /\ e > k + 6
    /\ \A q \in (k + 6)..(e - 1) : t[q] \in Digit
    /\ t[e] = ">"

MarkerSpans(t) ==
    {sp \in PositionsOf(t, "<") \X PositionsOf(t, ";") \X PositionsOf(t, ">") :
        WellFormed(t, sp[1], sp[2], sp[3])}

\* the marker occurrences of t, left to right: a marker that begins inside
\* the DOCNAME of another is part of that marker
MarkerOccurrences(t) ==
    {sp \in MarkerSpans(t) :
        ~\E other \in MarkerSpans(t) : other[1] < sp[1] /\ sp[1] <= other[3]}

OccurrenceRank(t, sp) ==
    Cardinality({other \in MarkerOccurrences(t) : other[1] <= sp[1]})

\* C19: the parser returns one citation per well-formed marker occurrence,
\* in left-to-right order and with duplicates kept, each with the matched
\* substring as its raw marker, its DOCNAME and its page; a marker whose page
\* is missing or not a number is no occurrence, gives no citation and leaves
\* the citations of the other markers as they are.
C19_OneCitationPerMarker ==
    pc \in {"normalize", "done"} =>
        /\ Len(citations) = Cardinality(MarkerOccurrences(text))
        /\ \A sp \in MarkerOccurrences(text) :
               LET r == OccurrenceRank(text, sp)
               IN  /\ r <= Len(citations)
                   /\ citations[r].raw = SubSeq(text, sp[1], sp[3])
                   /\ citations[r].documentName = SubSeq(text, sp[1] + 5, sp[2] - 1)
                   /\ citations[r].pageNumber = ParseInt(SubSeq(text, sp[2] + 6, sp[3] - 1))

\* a marker whose page is missing or not a number, followed by the same
\* well-formed marker twice
C19_Witness ==
    /\ pc = "normalize"
    /\ \/ Find(text, <<"<", "d", "o", "c", "=", "b", ";", "p", "a", "g", "e", "=", ">">>) = 0
       \/ Find(text, <<"<", "d", "o", "c", "=", "b", ";", "p", "a", "g", "e", "=", "x", ">">>) = 0
    /\ Len(citations) >= 2
    /\ \E i \in DOMAIN citations :
           /\ i + 1 \in DOMAIN citations
           /\ citations[i] = citations[i + 1]

-----------------------------------------------------------------------------
(* Claim about the accumulated answer of rag_stream *)

TokenEvents == SelectSeq(events, LAMBDA e : e.type = "token")

\* C20: at every point of a rag_stream run the accumulated answer is the
\* concatenation, in arrival order, of the contents of the token events
\* emitted so far and of the upstream chunks consumed so far, tool metadata
\* chunks and empty chunks adding nothing; the citations taken at stream end
\* are those of the whole answer, also when a marker arrived in pieces.
C20_AnswerIsTokensInOrder ==
    /\ full_answer = Flatten([i \in DOMAIN TokenEvents |-> TokenEvents[i].content])
    /\ pc = "streaming" => full_answer = AnswerOf(SubSeq(upstream, 1, pos))
    /\ (pc \in {"resolving", "done"} /\ request.enableCitations) =>
           stream_citations = parse_pageindex_citations(AnswerOf(upstream))

\* a marker arrived in two tokens of a stream that also had a tool event, and
\* was resolved to a source
C20_Witness ==
    /\ pc = "done"
    /\ Len(SourceEvents) = 1
    /\ \A i \in DOMAIN TokenEvents : ~HasMarker(TokenEvents[i].content)
    /\ \E i \in DOMAIN events : events[i].type \in {"tool_start", "tool_result"}

-----------------------------------------------------------------------------
(* process_chat_with_tools of src/examples/backend_streaming.py *)

\* messages are at most MaxMessageLen characters long
MaxMessageLen == 2

\* chunk_size = 20
ChunkSize == 20

Messages == SeqsUpTo({"a", " "}, MaxMessageLen)

\* values str(uuid.uuid4()) may return
UuidValues == {"u1", "u2", "u3"}

\* response_text up to the message
ResponseHead ==
    << "B", "a", "s", "e", "d", " ", "o", "n", " ", "m", "y", " ", "a", "n",
       "a", "l", "y", "s", "i", "s", " ", "o", "f", " ", "t", "h", "e", " ",
       "d", "o", "c", "u", "m", "e", "n", "t", "s", ",", " ", "h", "e", "r",
       "e", "'", "s", " ", "w", "h", "a", "t", " ", "I", " ", "f", "o", "u",
       "n", "d", ":", "\n", "\n", "#", "#", " ", "S", "u", "m", "m", "a",
       "r", "y", "\n", "\n", "T", "h", "e", " ", "d", "o", "c", "u", "m",
       "e", "n", "t", "s", " ", "c", "o", "n", "t", "a", "i", "n", " ", "d",
       "e", "t", "a", "i", "l", "e", "d", " ", "i", "n", "f", "o", "r", "m",
       "a", "t", "i", "o", "n", " ", "a", "b", "o", "u", "t", " ", "y", "o",
       "u", "r", " ", "q", "u", "e", "r", "y", ":", " ", "\"" >>

\* response_text after the message
ResponseTail ==
    << "\"", "\n", "\n", "#", "#", "#", " ", "K", "e", "y", " ", "P", "o",
       "i", "n", "t", "s", "\n", "\n", "1", ".", " ", "*", "*", "F", "i",
       "r", "s", "t", " ", "f", "i", "n", "d", "i", "n", "g", "*", "*", ":",
       " ", "T", "h", "e", " ", "t", "e", "c", "h", "n", "i", "c", "a", "l",
       " ", "g", "u", "i", "d", "e", " ", "e", "x", "p", "l", "a", "i", "n",
       "s", " ", "t", "h", "e", " ", "c", "o", "r", "e", " ", "c", "o", "n",
       "c", "e", "p", "t", "s", " ", "[", "1", "]", "\n", "2", ".", " ", "*",
       "*", "S", "e", "c", "o", "n", "d", " ", "f", "i", "n", "d", "i", "n",
       "g", "*", "*", ":", " ", "T", "h", "e", " ", "A", "P", "I", " ", "r",
       "e", "f", "e", "r", "e", "n", "c", "e", " ", "p", "r", "o", "v", "i",
       "d", "e", "s", " ", "i", "m", "p", "l", "e", "m", "e", "n", "t", "a",
       "t", "i", "o", "n", " ", "d", "e", "t", "a", "i", "l", "s", " ", "[",
       "2", "]", " ", " ", "\n", "3", ".", " ", "*", "*", "T", "h", "i", "r",
       "d", " ", "f", "i", "n", "d", "i", "n", "g", "*", "*", ":", " ", "B",
       "e", "s", "t", " ", "p", "r", "a", "c", "t", "i", "c", "e", "s", " ",
       "r", "e", "c", "o", "m", "m", "e", "n", "d", " ", "s", "p", "e", "c",
       "i", "f", "i", "c", " ", "a", "p", "p", "r", "o", "a", "c", "h", "e",
       "s", " ", "[", "3", "]", "\n", "\n", "#", "#", "#", " ", "C", "o",
       "n", "c", "l", "u", "s", "i", "o", "n", "\n", "\n", "B", "a", "s",
       "e", "d", " ", "o", "n", " ", "a", "l", "l", " ", "s", "o", "u", "r",
       "c", "e", "s", " ", "[", "1", "]", "[", "2", "]", "[", "3", "]", ",",
       " ", "t", "h", "e", " ", "r", "e", "c", "o", "m", "m", "e", "n", "d",
       "e", "d", " ", "a", "p", "p", "r", "o", "a", "c", "h", " ", "i", "s",
       " ", "t", "o", " ", "f", "o", "l", "l", "o", "w", " ", "t", "h", "e",
       " ", "e", "s", "t", "a", "b", "l", "i", "s", "h", "e", "d", " ", "p",
       "a", "t", "t", "e", "r", "n", "s", " ", "w", "h", "i", "l", "e", " ",
       "a", "d", "a", "p", "t", "i", "n", "g", " ", "t", "o", " ", "y", "o",
       "u", "r", " ", "s", "p", "e", "c", "i", "f", "i", "c", " ", "u", "s",
       "e", " ", "c", "a", "s", "e", ".", "\n" >>

\* the f-string response_text
ResponseText(msg) == ResponseHead \o msg \o ResponseTail

Min(a, b) == IF a < b THEN a ELSE b

\* s[i:j] for 0 <= i <= j
Slice(s, i, j) == SubSeq(s, i + 1, Min(j, Len(s)))

create_sse_event(event_type, data) == [type |-> event_type, data |-> data]

\* the sources list of step 5
ChatSources ==
    << [id |-> "source-1", documentName |-> "Technical Guide.pdf",
        pageIndex |-> 42, title |-> "Core Concepts",
        content |-> "This section explains the fundamental concepts...",
        citationNumber |-> 1],
       [id |-> "source-2", documentName |-> "API Reference.pdf",
        pageIndex |-> 15, title |-> "Implementation Details",
        content |-> "The API provides several methods for...",
        citationNumber |-> 2],
       [id |-> "source-3", documentName |-> "Best Practices.pdf",
        pageIndex |-> 8, title |-> "Recommended Approaches",
        content |-> "When implementing this feature, consider...",
        citationNumber |-> 3] >>

InitChat ==
    /\ IdleRepeat
    /\ IdleNorm
    /\ IdleIndex
    /\ IdleHl
    /\ IdleResolve
    /\ pc = "step1"
    /\ message \in Messages
    /\ tool_ids = <<>>
    /\ response_text = <<>>
    /\ chunk_start = 0
    /\ sse = <<>>

FirstToolId(ids, n) == ids[1]

\* tool_id_1, tool_id_2 or tool_id_3 as the tool_end event reads it
ToolId(ids, n) == ids[n]

\* tool_id_n = str(uuid.uuid4()); yield tool_start; await asyncio.sleep
ToolStart(step, n, tool_name, input) ==
    /\ pc = step
    /\ \E id \in UuidValues :
           /\ tool_ids' = Append(tool_ids, id)
           /\ sse' = Append(sse, create_sse_event("tool_start",
                          [tool_call_id |-> id,
                           tool_name |-> tool_name, input |-> input]))
    /\ pc' = step \o "_sleep"
    /\ UNCHANGED <<message, response_text, chunk_start, notChat>>

\* yield tool_end
ToolEnd(step, n, output, next) ==
    /\ pc = step \o "_sleep"
    /\ sse' = Append(sse, create_sse_event("tool_end",
                   [tool_call_id |-> ToolId(tool_ids, n), output |-> output]))
    /\ pc' = next
    /\ UNCHANGED <<message, tool_ids, response_text, chunk_start, notChat>>

SearchDocumentsStart ==
    ToolStart("step1", 1, "search_documents", [query |-> message, limit |-> 5])

SearchDocumentsEnd ==
    ToolEnd("step1", 1,
            "Found 3 relevant documents: 'Technical Guide.pdf', 'API Reference.pdf', 'Best Practices.pdf'",
            "step2")

RetrieveContextStart ==
    ToolStart("step2", 2, "retrieve_context",
              [document_ids |-> <<"doc-1", "doc-2", "doc-3">>, max_chunks |-> 10])

RetrieveContextEnd ==
    ToolEnd("step2", 2, "Retrieved 8 relevant passages from 3 documents", "step3")

AnalyzeContentStart ==
    ToolStart("step3", 3, "analyze_content", [task |-> "summarize_and_answer"])

AnalyzeContentEnd ==
    ToolEnd("step3", 3, "Analysis complete. Generating response...", "step4")

\* one iteration of `for i in range(0, len(response_text), chunk_size)`
ContentDelta ==
    /\ pc = "step4"
    /\ chunk_start < Len(ResponseText(message))
    /\ response_text' = ResponseText(message)
    /\ sse' = Append(sse, create_sse_event("content_delta",
                   [delta |-> Slice(ResponseText(message), chunk_start,
                                    chunk_start + ChunkSize)]))
    /\ chunk_start' = chunk_start + ChunkSize
    /\ UNCHANGED <<pc, message, tool_ids, notChat>>

\* the chunk loop is over: yield the sources event
SendSources ==
    /\ pc = "step4"
    /\ chunk_start >= Len(ResponseText(message))
    /\ sse' = Append(sse, create_sse_event("sources", [sources |-> ChatSources]))
    /\ pc' = "step6"
    /\ UNCHANGED <<message, tool_ids, response_text, chunk_start, notChat>>

\* yield content_done
ContentDone ==
    /\ pc = "step6"
    /\ sse' = Append(sse, create_sse_event("content_done",
                   [content |-> response_text]))
    /\ pc' = "chat_done"
    /\ UNCHANGED <<message, tool_ids, response_text, chunk_start, notChat>>

NextChat ==
    \/ SearchDocumentsStart
    \/ SearchDocumentsEnd
    \/ RetrieveContextStart
    \/ RetrieveContextEnd
    \/ AnalyzeContentStart
    \/ AnalyzeContentEnd
    \/ ContentDelta
    \/ SendSources
    \/ ContentDone

SpecChat == InitChat /\ [][NextChat]_vars

-----------------------------------------------------------------------------
(* Claim about process_chat_with_tools *)

ToolEventTypes == {"tool_start", "tool_end", "tool_error"}

\* C21: the events of process_chat_with_tools obey the protocol: between two
\* tool_start events lies a tool_end with the tool_call_id of the first, and
\* once the run is over every tool_start has its tool_end; every tool event
\* precedes every content_delta; the sources event follows every
\* content_delta; content_done is emitted once, as the last event.
C21_ChatEventProtocol ==
    /\ \A i, j \in DOMAIN sse :
           (i < j /\ sse[i].type = "tool_start" /\ sse[j].type = "tool_start") =>
               \E k \in (i + 1)..(j - 1) :
                   /\ sse[k].type = "tool_end"
                   /\ sse[k].data.tool_call_id = sse[i].data.tool_call_id
    /\ \A i \in DOMAIN sse :
           (sse[i].type = "tool_start" /\ i < Len(sse)) =>
               /\ sse[i + 1].type = "tool_end"
               /\ sse[i + 1].data.tool_call_id = sse[i].data.tool_call_id
    /\ \A i, j \in DOMAIN sse :
           (sse[i].type \in ToolEventTypes /\ sse[j].type = "content_delta") => i < j
    /\ \A i, j \in DOMAIN sse :
           (sse[i].type = "sources" /\ sse[j].type = "content_delta") => j < i
    /\ \A i \in DOMAIN sse :
           sse[i].type = "content_done" => (pc = "chat_done" /\ i = Len(sse))
    /\ pc = "chat_done" =>
           /\ sse[Len(sse)].type = "content_done"
           /\ \E i \in DOMAIN sse : sse[i].type = "sources"

\* a finished run whose tools got different ids
C21_Witness ==
    /\ pc = "chat_done"
    /\ message # <<>>
    /\ tool_ids[1] # tool_ids[2]
    /\ tool_ids[2] # tool_ids[3]
    /\ \E i \in DOMAIN sse : sse[i].type = "content_delta"

-----------------------------------------------------------------------------
(* Claim about the page range of a source *)

\* C22: in every source of rag_query and of rag_stream pageIndex is the page
\* of a citation of the answer, endPageIndex is not below pageIndex, and
\* endPageIndex is that page or the end page of a section of the tree whose
\* range holds the page.
C22_EndPageNotBeforePage ==
    \A s \in AllSources :
        /\ s.endPageIndex >= s.pageIndex
        /\ \E j \in DOMAIN AnswerCitations :
               /\ AnswerCitations[j].pageNumber = s.pageIndex
               /\ AnswerCitations[j].documentName = s.documentName
        /\ \/ s.endPageIndex = s.pageIndex
           \/ /\ TreeAvailable
              /\ \E k \in DOMAIN TreeNodes :
                     /\ TreeNodes[k].start_index <= s.pageIndex
                     /\ s.pageIndex <= TreeNodes[k].end_index
                     /\ TreeNodes[k].end_index = s.endPageIndex

\* rag_query and rag_stream both gave a source that ends after its page, and
\* one that ends on it
C22_Witness ==
    /\ pc = "done"
    /\ \E i \in DOMAIN response.sources :
           response.sources[i].endPageIndex > response.sources[i].pageIndex
    /\ \E i \in DOMAIN SourceEvents :
           SourceEvents[i].source.endPageIndex > SourceEvents[i].source.pageIndex
    /\ \E i \in DOMAIN SourceEvents :
           SourceEvents[i].source.endPageIndex = SourceEvents[i].source.pageIndex

-----------------------------------------------------------------------------
(* Claim about locating a sentence in extract_query_highlights *)

\* sub is the text of s from offset p on
OccursAt(s, sub, p) ==
    /\ p >= 0
    /\ p + Len(sub) <= Len(s)
    /\ SubSeq(s, p + 1, p + Len(sub)) = sub

\* the trimmed pieces of the splitter
TrimmedPieces ==
    LET pieces == SplitSentences(sectionText)
    IN  [i \in DOMAIN pieces |-> Strip(pieces[i])]

\* the scored sentences with at least one keyword in them
Matching ==
    {i \in DOMAIN scored : MatchCount(Keywords(query), scored[i]) > 0}

\* C23: in extract_query_highlights every trimmed piece of the splitter
\* occurs in the section text, no sentence with a keyword match is dropped
\* (the highlights are as many as the matching sentences, up to
\* max_highlights), and each startOffset is the offset of the first
\* occurrence of the highlight's text.
C23_SentenceAlwaysLocated ==
    (pc = "kw_done" /\ sectionText # <<>> /\ Keywords(query) # <<>>) =>
        /\ \A i \in DOMAIN TrimmedPieces :
               \E p \in 0..Len(sectionText) :
                   OccursAt(sectionText, TrimmedPieces[i], p)
        /\ Len(highlights) = Min(max_highlights, Cardinality(Matching))
        /\ \A i \in DOMAIN highlights :
               /\ OccursAt(sectionText, highlights[i].text, highlights[i].startOffset)
               /\ \A p \in 0..(highlights[i].startOffset - 1) :
                      ~OccursAt(sectionText, highlights[i].text, p)

\* a text that holds a matching sentence twice, with blanks and a line break
\* between the two: both highlights carry the offset of the first occurrence
C23_Witness ==
    /\ pc = "kw_done"
    /\ Len(highlights) >= 2
    /\ highlights[1] = highlights[2]
    /\ Len(sectionText) > 2 * Len(highlights[1].text) + 1

=============================================================================
